---- MODULE Spec2Model ----
(***************************************************************************)
(* A model of two parts of the LMMS sources:                               *)
(*   - LooperCtrl (plugins/looper/looper.cpp): the live-looping controller *)
(*     that turns MIDI program-change / control-change events and the      *)
(*     song's loop-restart signal into play / record / mute actions;       *)
(*   - TrackContainer (TrackContainer.cpp): the list of tracks guarded by  *)
(*     a read/write lock, used from several threads, and the resolution of *)
(*     automated values (automatedValuesFromTracks) over such a list.      *)
(* Clip colours (LooperCtrl::setColor) and the solo / clear-notes pads are *)
(* display or note-editing state that no modelled handler reads; they are  *)
(* left out of the state.                                                  *)
(***************************************************************************)
EXTENDS Integers, Sequences, FiniteSets, TLC

(* ------------------------------ bounds --------------------------------- *)

\* number of track objects that exist
MaxTracks == 3
\* largest number of tracks in the song the looper works on
MaxSong == 2
\* largest MIDI Program Change number sent to the looper
MaxPC == 2
\* capacity of the queue of trackChanged signals not yet delivered
MaxQueue == 1
\* number of threads that call into the TrackContainer
NumThreads == 2
\* how often addTrack is called for one track object
MaxAdds == 1

(* --------------------------- program constants ------------------------- *)

\* the MIDI input ports the MIDI client offers
Ports == {"in1", "in2"}

\* the loop lengths (in bars) the user chooses in the looper's spin boxes
LoopLengths == {1, 2}

\* Track::TrackTypes values that occur in the model
TrackTypes == {"InstrumentTrack", "SampleTrack", "HiddenAutomationTrack"}

\* LooperCtrl::PendingAction: actions from ProtectedAction on are not
\* overwritten by setPendingAction unless it is called with preempt
NoAction == 0
ToggleMuteTrack == 1
ProtectedAction == 2
StartRecord == 3
StopRecord == 4

\* ticks per bar of the song's time line
DefaultTicksPerBar == 192

TrackIds == 1..MaxTracks

Threads == 1..NumThreads

\* QMap<QString, bool>: the readable ports a MidiPort knows, each subscribed or not
PortMaps == UNION {[D -> BOOLEAN] : D \in SUBSET Ports}

VARIABLES
    m_tracks,              \* TrackContainer::m_tracks: the list of tracks (ids)
    trackType,             \* Track::type() of every track object
    muted,                 \* Track::isMuted() of every track object
    midiPort,              \* InstrumentTrack::midiPort()->readablePorts()
    m_midiPort,            \* LooperCtrl::m_midiPort: [mode, readablePorts]
    m_enabled,             \* LooperCtrl::m_enabled
    m_pendingAction,       \* LooperCtrl::m_pendingAction
    m_globalLoopLength,    \* LooperCtrl::m_globalLoopLength (bars)
    m_usePerTrackLoopLength, \* LooperCtrl::m_usePerTrackLoopLength
    m_tracksLoopLength,    \* LooperCtrl::m_tracksLoopLength: track -> bars
    playing,               \* Song::isPlaying()
    recording,             \* PianoRoll::isRecording()
    currentMidiClip,       \* PianoRoll::currentMidiClip(): 0 (none) or its track
    timeline,              \* loop points of the song's time line
    trackChanged,          \* emitted trackChanged(int) signals not yet delivered
    m_tracksMutex,         \* TrackContainer::m_tracksMutex: [writer, readers]
    trackLock,             \* Track::lock(): the thread holding it, or 0
    thr,                   \* every thread: where it is in which call
    trackAdded,            \* trackAdded(track) signals emitted, per track
    addCalls,              \* history: addTrack calls begun, per track
    lastOp,                \* history: the handler that ran last, and the state it saw
    recordRequested,       \* history: a record event came while playing, not
                           \* recording, a clip open, and no loop restart since
    clips,                 \* Track::m_clips of every track object
    valueMap,              \* the AutomatedValueMap returned last
    query,                 \* history: the arguments of that call
    added                  \* history: the tracks addTrack was called with and
                           \* removeTrack was not since, in order of addition

looperVars == <<muted, midiPort, m_midiPort, m_enabled, m_pendingAction,
                m_globalLoopLength, m_usePerTrackLoopLength, m_tracksLoopLength,
                playing, recording, currentMidiClip, timeline, trackChanged,
                lastOp, recordRequested>>

containerVars == <<m_tracksMutex, trackLock, thr, trackAdded, addCalls, added>>

automationVars == <<clips, valueMap, query>>

vars == <<m_tracks, trackType, muted, midiPort, m_midiPort, m_enabled,
          m_pendingAction, m_globalLoopLength, m_usePerTrackLoopLength,
          m_tracksLoopLength, playing, recording, currentMidiClip, timeline,
          trackChanged, m_tracksMutex, trackLock, thr, trackAdded, addCalls,
          lastOp, recordRequested, clips, valueMap, query, added>>

(* ------------------- the looper's state as one value -------------------- *)

\* The handlers below are functions from state to state, so that a handler
\* can call another one as the code does.
LooperState ==
    [ pending   |-> m_pendingAction,
      playing   |-> playing,
      recording |-> recording,
      clip      |-> currentMidiClip,
      muted     |-> muted,
      ports     |-> midiPort,
      looper    |-> m_midiPort,
      enabled   |-> m_enabled,
      loopLen   |-> m_globalLoopLength,
      timeline  |-> timeline,
      signals   |-> trackChanged ]

Commit(s) ==
    /\ m_pendingAction' = s.pending
    /\ playing' = s.playing
    /\ recording' = s.recording
    /\ currentMidiClip' = s.clip
    /\ muted' = s.muted
    /\ midiPort' = s.ports
    /\ m_midiPort' = s.looper
    /\ m_enabled' = s.enabled
    /\ m_globalLoopLength' = s.loopLen
    /\ timeline' = s.timeline
    /\ trackChanged' = s.signals

(* ----------------- collaborators outside looper.cpp -------------------- *)

\* MidiPort::subscribeReadablePort: m_readablePorts[port] = subscribe
subscribeReadablePort(map, port, subscribe) ==
    [p \in (DOMAIN map) \cup {port} |-> IF p = port THEN subscribe ELSE map[p]]

\* PianoRoll::recordAccompany: recording starts and the song plays
recordAccompany(s) == [s EXCEPT !.recording = TRUE, !.playing = TRUE]

\* PianoRoll::stopRecording
stopRecording(s) == [s EXCEPT !.recording = FALSE]

\* Song::playSong
playSong(s) == [s EXCEPT !.playing = TRUE]

\* Song::stop
stop(s) == [s EXCEPT !.playing = FALSE]

(* ------------------------------ LooperCtrl ----------------------------- *)

RECURSIVE InstrumentTrackFrom(_, _)
\* the loop of getInstrumentTrackAt from index i on, position still to skip
InstrumentTrackFrom(i, position) ==
    IF i >= Len(m_tracks) THEN -1
    ELSE IF trackType[m_tracks[i + 1]] = "InstrumentTrack"
         THEN IF position = 0 THEN i
              ELSE InstrumentTrackFrom(i + 1, position - 1)
         ELSE InstrumentTrackFrom(i + 1, position)

\* mutant: program changes counted from 1
getInstrumentTrackAtFromOne(position) == InstrumentTrackFrom(0, position - 1)

getInstrumentTrackAt(position) == InstrumentTrackFrom(0, position)

setPendingAction(s, action, preempt) ==
    IF preempt \/ s.pending < ProtectedAction
    THEN [s EXCEPT !.pending = action]
    ELSE s

enableLoop(s, length) ==
    LET bars == IF length = -1 THEN s.loopLen ELSE length
    IN  [s EXCEPT !.timeline = [lp0pos  |-> 0,
                                lp1pos  |-> bars * DefaultTicksPerBar,
                                lpstate |-> "LoopPointsEnabled"]]

RECURSIVE subscribeEach(_, _, _)
\* a loop of subscribeReadablePort calls over the given keys
subscribeEach(keys, map, values) ==
    IF keys = {} THEN map
    ELSE LET key == CHOOSE k \in keys : TRUE
         IN  subscribeEach(keys \ {key},
                           subscribeReadablePort(map, key, values[key]),
                           values)

\* the first loop of setupTrack: every port of the looper that the track
\* knows is subscribed as the looper has it
enableInputs(trInputs, cfgInputs) ==
    subscribeEach({key \in DOMAIN cfgInputs : key \in DOMAIN trInputs},
                  trInputs, cfgInputs)

\* mutant: the other tracks keep their inputs
removeInputsKeeps(inputs) == inputs

\* the second loop of setupTrack for one other instrument track
removeInputs(inputs) ==
    subscribeEach(DOMAIN inputs, inputs, [key \in DOMAIN inputs |-> FALSE])

\* the loop length setupTrack passes to enableLoop for track t
trackLoopLength(t) ==
    IF m_usePerTrackLoopLength /\ t \in DOMAIN m_tracksLoopLength
    THEN m_tracksLoopLength[t]
    ELSE -1

\* setupTrack once trackId is known to be given (not -1)
setupGivenTrack(s, trackId) ==
    IF trackId >= Len(m_tracks) THEN s
    ELSE LET t == m_tracks[trackId + 1]
         IN  IF trackType[t] # "InstrumentTrack" THEN s
             ELSE LET subscribed ==
                          [s.ports EXCEPT ![t] =
                              enableInputs(s.ports[t], s.looper.readablePorts)]
                      others ==
                          [u \in DOMAIN subscribed |->
                              IF /\ \E i \in 0..(Len(m_tracks) - 1) :
                                        i # trackId /\ m_tracks[i + 1] = u
                                 /\ trackType[u] = "InstrumentTrack"
                              THEN removeInputs(subscribed[u])
                              ELSE subscribed[u]]
                  IN  enableLoop([s EXCEPT !.ports = others], trackLoopLength(t))

setupTrack(s, trackId) ==
    IF trackId = -1
    THEN IF getInstrumentTrackAt(0) = -1 THEN s
         ELSE setupGivenTrack(s, getInstrumentTrackAt(0))
    ELSE setupGivenTrack(s, trackId)

\* opens the clip at position 0 of the track (creating it when missing)
openTrackOnPianoRoll(s, trackId) ==
    LET id == IF trackId = -1 THEN getInstrumentTrackAt(0) ELSE trackId
    IN  IF id = -1 THEN s
        ELSE [s EXCEPT !.clip = m_tracks[id + 1]]

toggleMuteTrack(s) ==
    IF s.clip = 0 THEN s
    ELSE [s EXCEPT !.muted[s.clip] = ~s.muted[s.clip]]

\* mutant: stopping the recording stops the song too
toggleRecordStopsSong(s) ==
    IF s.recording
    THEN stop(stopRecording(s))
    ELSE IF s.playing
         THEN IF s.clip = 0 THEN s
              ELSE setPendingAction(s, StartRecord, FALSE)
         ELSE [recordAccompany(s) EXCEPT !.pending = StopRecord]

toggleRecord(s) ==
    IF s.recording
    THEN stopRecording(s)
    ELSE IF s.playing
         THEN IF s.clip = 0 THEN s
              ELSE setPendingAction(s, StartRecord, FALSE)
         ELSE [recordAccompany(s) EXCEPT !.pending = StopRecord]

\* mutant: the play pad records when the song is idle
togglePlayRecordsWhenIdle(s) ==
    IF s.recording
    THEN toggleRecord(s)
    ELSE IF s.playing
         THEN setPendingAction(stop(s), NoAction, FALSE)
         ELSE toggleRecord(s)

togglePlay(s) ==
    IF s.recording
    THEN toggleRecord(s)
    ELSE IF s.playing
         THEN setPendingAction(stop(s), NoAction, FALSE)
         ELSE playSong(s)

\* mutant: the loop restart that starts the recording queues no stop
onLoopRestartQueuesNoStop(s) ==
    CASE s.pending = StartRecord ->
            [recordAccompany(s) EXCEPT !.pending = NoAction]
      [] s.pending = StopRecord ->
            setPendingAction(stopRecording(s), NoAction, TRUE)
      [] s.pending = ToggleMuteTrack ->
            setPendingAction(toggleMuteTrack(s), NoAction, FALSE)
      [] OTHER -> s

onLoopRestart(s) ==
    CASE s.pending = StartRecord ->
            [recordAccompany(s) EXCEPT !.pending = StopRecord]
      [] s.pending = StopRecord ->
            setPendingAction(stopRecording(s), NoAction, TRUE)
      [] s.pending = ToggleMuteTrack ->
            setPendingAction(toggleMuteTrack(s), NoAction, FALSE)
      [] OTHER -> s

onTrackChanged(s, newTrackId) == openTrackOnPianoRoll(s, newTrackId)

onLoopLengthChanged(s) ==
    IF s.enabled THEN enableLoop(s, -1) ELSE s

onEnableChanged(s) ==
    IF s.enabled
    THEN LET on == [s EXCEPT !.looper.mode = "Input"]
             trackId == getInstrumentTrackAt(0)
         IN  IF trackId # -1
             THEN setupTrack(openTrackOnPianoRoll(on, trackId), trackId)
             ELSE on
    ELSE [s EXCEPT !.looper.mode = "Disabled"]

onProjectLoad(s) ==
    LET trackId == getInstrumentTrackAt(0)
    IN  IF trackId # -1
        THEN setupTrack(openTrackOnPianoRoll(s, trackId), trackId)
        ELSE s

\* the unmute-all branch of processInEvent
unmuteAll(s) ==
    [s EXCEPT !.muted =
        [t \in DOMAIN s.muted |->
            IF /\ \E i \in 1..Len(m_tracks) : m_tracks[i] = t
               /\ trackType[t] = "InstrumentTrack"
            THEN FALSE
            ELSE s.muted[t]]]

\* emit trackChanged(trackId): the slot runs later, in the GUI thread
emitTrackChanged(s, trackId) ==
    [s EXCEPT !.signals = Append(s.signals, trackId)]

\* the control a MIDI CC event is bound to (the first binding of the chain
\* that matches its channel and key); solo and clear-notes are not modelled
Controls == {"play", "record", "muteCurrent", "unmuteAll", "none"}

MidiEvents ==
    [type : {"MidiProgramChange"}, key : 0..MaxPC,
     velocity : {0}, control : {"none"}]
    \cup
    [type : {"MidiControlChange"}, key : {0},
     velocity : {0, 127}, control : Controls]

\* mutant: the program change does not check that the track exists
processInEventUnchecked(s, ev) ==
    IF ev.type = "MidiProgramChange"
    THEN LET trackId == getInstrumentTrackAt(ev.key)
         IN  emitTrackChanged(setupTrack(s, trackId), trackId)
    ELSE IF ev.type = "MidiControlChange"
    THEN IF ev.velocity = 0 THEN s
         ELSE CASE ev.control = "play"        -> togglePlay(s)
                [] ev.control = "record"      -> toggleRecord(s)
                [] ev.control = "muteCurrent" ->
                       setPendingAction(s, ToggleMuteTrack, FALSE)
                [] ev.control = "unmuteAll"   -> unmuteAll(s)
                [] OTHER                      -> s
    ELSE s

processInEvent(s, ev) ==
    IF ev.type = "MidiProgramChange"
    THEN LET trackId == getInstrumentTrackAt(ev.key)
         IN  IF trackId = -1 THEN s
             ELSE emitTrackChanged(setupTrack(s, trackId), trackId)
    ELSE IF ev.type = "MidiControlChange"
    THEN IF ev.velocity = 0 THEN s
         ELSE CASE ev.control = "play"        -> togglePlay(s)
                [] ev.control = "record"      -> toggleRecord(s)
                [] ev.control = "muteCurrent" ->
                       setPendingAction(s, ToggleMuteTrack, FALSE)
                [] ev.control = "unmuteAll"   -> unmuteAll(s)
                [] OTHER                      -> s
    ELSE s

\* the name under which an event is recorded in lastOp
EventName(ev) ==
    IF ev.type = "MidiProgramChange" THEN "programChange"
    ELSE IF ev.velocity = 0 THEN "released"
    ELSE ev.control

\* the handler that ran, the key of the event it handled (0 when none), and
\* what it found: whether the song played and the piano roll recorded, the
\* pending action, the piano roll's clip, and whether a record request waited
Op(name, key) ==
    [op |-> name, key |-> key, playing |-> playing, recording |-> recording,
     pending |-> m_pendingAction, clip |-> currentMidiClip,
     requested |-> recordRequested]

(* ------------------------------- actions ------------------------------- *)

\* the tracks of the song do not change while the looper runs
SongUnchanged ==
    /\ UNCHANGED <<m_tracks, trackType, m_usePerTrackLoopLength, m_tracksLoopLength>>
    /\ UNCHANGED containerVars
    /\ UNCHANGED automationVars

\* a MIDI event of the given kind reaches the looper's port (only while the
\* port is an input) and processInEvent handles it
Deliver(events) ==
    \E ev \in events :
        /\ m_midiPort.mode = "Input"
        /\ LET s == processInEvent(LooperState, ev)
           IN  /\ Len(s.signals) <= MaxQueue
               /\ Commit(s)
        /\ lastOp' = Op(EventName(ev), ev.key)
        /\ recordRequested' =
              IF /\ EventName(ev) = "record"
                 /\ playing /\ ~recording /\ currentMidiClip # 0
              THEN TRUE
              ELSE recordRequested
        /\ SongUnchanged

ProgramChangeEvent ==
    Deliver({ev \in MidiEvents : ev.type = "MidiProgramChange"})

ControlChangeEvent ==
    Deliver({ev \in MidiEvents : ev.type = "MidiControlChange"})

\* Song emits updateSampleTracks (the loop restarts, or the play position is set)
OnLoopRestart ==
    /\ Commit(onLoopRestart(LooperState))
    /\ lastOp' = Op("loopRestart", 0)
    /\ recordRequested' = FALSE
    /\ SongUnchanged

\* a queued trackChanged signal is delivered to its slot
OnTrackChanged ==
    /\ trackChanged # <<>>
    /\ Commit(onTrackChanged([LooperState EXCEPT !.signals = Tail(trackChanged)],
                             Head(trackChanged)))
    /\ lastOp' = Op("trackChanged", 0)
    /\ UNCHANGED recordRequested
    /\ SongUnchanged

\* the user switches the looper on or off
OnEnableChanged ==
    /\ Commit(onEnableChanged([LooperState EXCEPT !.enabled = ~m_enabled]))
    /\ lastOp' = Op("enableChanged", 0)
    /\ UNCHANGED recordRequested
    /\ SongUnchanged

\* the user sets the global loop length
OnLoopLengthChanged ==
    \E bars \in LoopLengths :
        /\ bars # m_globalLoopLength
        /\ Commit(onLoopLengthChanged([LooperState EXCEPT !.loopLen = bars]))
        /\ lastOp' = Op("loopLengthChanged", 0)
        /\ UNCHANGED recordRequested
        /\ SongUnchanged

\* Song emits projectLoaded
OnProjectLoad ==
    /\ Commit(onProjectLoad(LooperState))
    /\ lastOp' = Op("projectLoad", 0)
    /\ UNCHANGED recordRequested
    /\ SongUnchanged

(* ---------------------------- TrackContainer --------------------------- *)

\* a thread that is in no call
Idle == [pc |-> "idle", track |-> 0, i |-> 0, ret |-> "idle"]

At(self, pc) == thr[self].pc = pc

Goto(self, pc) == thr' = [thr EXCEPT ![self].pc = pc]

\* QVector::indexOf: the first index (from 0) of the track, or -1
indexOf(list, track) ==
    IF \E i \in 1..Len(list) : list[i] = track
    THEN (CHOOSE i \in 1..Len(list) :
              list[i] = track /\ \A j \in 1..(i - 1) : list[j] # track) - 1
    ELSE -1

\* mutant: the element after the one at the index is removed
removeNext(list, index) ==
    [j \in 1..(Len(list) - 1) |-> IF j <= index + 1 THEN list[j] ELSE list[j + 1]]

\* QVector::remove(index), index from 0
remove(list, index) ==
    [j \in 1..(Len(list) - 1) |-> IF j <= index THEN list[j] ELSE list[j + 1]]

\* QReadWriteLock
lockForWrite(self) ==
    /\ m_tracksMutex.writer = 0
    /\ m_tracksMutex.readers = {}
    /\ m_tracksMutex' = [m_tracksMutex EXCEPT !.writer = self]

lockForRead(self) ==
    /\ m_tracksMutex.writer = 0
    /\ m_tracksMutex' = [m_tracksMutex EXCEPT !.readers = @ \cup {self}]

unlock(self) ==
    m_tracksMutex' =
        IF m_tracksMutex.writer = self
        THEN [m_tracksMutex EXCEPT !.writer = 0]
        ELSE [m_tracksMutex EXCEPT !.readers = @ \ {self}]

LooperUnchanged ==
    /\ UNCHANGED looperVars
    /\ UNCHANGED automationVars

\* a thread calls addTrack(track); a hidden automation track is not added
addTrack(self) ==
    \E track \in TrackIds :
        /\ At(self, "idle")
        /\ addCalls[track] < MaxAdds
        /\ \A i \in 1..Len(m_tracks) : m_tracks[i] # track
        /\ \A other \in Threads : thr[other].track # track
        /\ addCalls' = [addCalls EXCEPT ![track] = @ + 1]
        /\ thr' = [thr EXCEPT ![self] =
                      IF trackType[track] # "HiddenAutomationTrack"
                      THEN [Idle EXCEPT !.pc = "add_lockTrack", !.track = track]
                      ELSE Idle]
        /\ added' = IF trackType[track] # "HiddenAutomationTrack"
                     THEN added
                     ELSE Append(added, track)
        /\ UNCHANGED <<m_tracks, trackType, m_tracksMutex, trackLock, trackAdded>>
        /\ LooperUnchanged

\* _track->lock()
addTrackLockTrack(self) ==
    /\ At(self, "add_lockTrack")
    /\ trackLock[thr[self].track] = 0
    /\ trackLock' = [trackLock EXCEPT ![thr[self].track] = self]
    /\ Goto(self, "add_lockForWrite")
    /\ UNCHANGED <<m_tracks, trackType, m_tracksMutex, trackAdded, addCalls, added>>
    /\ LooperUnchanged

\* m_tracksMutex.lockForWrite()
addTrackLockForWrite(self) ==
    /\ At(self, "add_lockForWrite")
    /\ lockForWrite(self)
    /\ Goto(self, "add_push")
    /\ UNCHANGED <<m_tracks, trackType, trackLock, trackAdded, addCalls, added>>
    /\ LooperUnchanged

\* m_tracks.push_back(_track)
addTrackPush(self) ==
    /\ At(self, "add_push")
    /\ m_tracks' = Append(m_tracks, thr[self].track)
    /\ added' = Append(added, thr[self].track)
    /\ Goto(self, "add_unlock")
    /\ UNCHANGED <<trackType, m_tracksMutex, trackLock, trackAdded, addCalls>>
    /\ LooperUnchanged

\* m_tracksMutex.unlock()
addTrackUnlock(self) ==
    /\ At(self, "add_unlock")
    /\ unlock(self)
    /\ Goto(self, "add_unlockTrack")
    /\ UNCHANGED <<m_tracks, trackType, trackLock, trackAdded, addCalls, added>>
    /\ LooperUnchanged

\* mutant: the track's lock is not released
addTrackKeepsTrackLocked(self) ==
    /\ At(self, "add_unlockTrack")
    /\ Goto(self, "add_emit")
    /\ UNCHANGED <<m_tracks, trackType, m_tracksMutex, trackLock, trackAdded,
                   addCalls, added>>
    /\ LooperUnchanged

\* _track->unlock()
addTrackUnlockTrack(self) ==
    /\ At(self, "add_unlockTrack")
    /\ trackLock' = [trackLock EXCEPT ![thr[self].track] = 0]
    /\ Goto(self, "add_emit")
    /\ UNCHANGED <<m_tracks, trackType, m_tracksMutex, trackAdded, addCalls, added>>
    /\ LooperUnchanged

\* emit trackAdded(_track)
addTrackEmit(self) ==
    /\ At(self, "add_emit")
    /\ trackAdded' = [trackAdded EXCEPT ![thr[self].track] = @ + 1]
    /\ thr' = [thr EXCEPT ![self] = Idle]
    /\ UNCHANGED <<m_tracks, trackType, m_tracksMutex, trackLock, addCalls, added>>
    /\ LooperUnchanged

\* a thread calls removeTrack(track) (the destructor of a track does)
removeTrack(self) ==
    \E track \in TrackIds :
        /\ At(self, "idle")
        /\ \A other \in Threads : thr[other].track # track
        /\ thr' = [thr EXCEPT ![self] =
                      [Idle EXCEPT !.pc = "rm_lockForWrite", !.track = track]]
        /\ UNCHANGED <<m_tracks, trackType, m_tracksMutex, trackLock,
                       trackAdded, addCalls, added>>
        /\ LooperUnchanged

\* QWriteLocker lockTracksAccess(&m_tracksMutex)
removeTrackLockForWrite(self) ==
    /\ At(self, "rm_lockForWrite")
    /\ lockForWrite(self)
    /\ Goto(self, "rm_remove")
    /\ UNCHANGED <<m_tracks, trackType, trackLock, trackAdded, addCalls, added>>
    /\ LooperUnchanged

\* index = m_tracks.indexOf(_track); if found, m_tracks.remove(index)
removeTrackRemove(self) ==
    /\ At(self, "rm_remove")
    /\ LET index == indexOf(m_tracks, thr[self].track)
       IN  m_tracks' = IF index # -1 THEN remove(m_tracks, index) ELSE m_tracks
    /\ added' = SelectSeq(added, LAMBDA t : t # thr[self].track)
    /\ Goto(self, "rm_unlock")
    /\ UNCHANGED <<trackType, m_tracksMutex, trackLock, trackAdded, addCalls>>
    /\ LooperUnchanged

\* lockTracksAccess.unlock(), or the locker's destructor; the call returns
\* to clearAllTracks when that one made it
removeTrackUnlock(self) ==
    /\ At(self, "rm_unlock")
    /\ unlock(self)
    /\ thr' = [thr EXCEPT ![self] = [Idle EXCEPT !.pc = thr[self].ret]]
    /\ UNCHANGED <<m_tracks, trackType, trackLock, trackAdded, addCalls, added>>
    /\ LooperUnchanged

\* a thread calls countTracks or saveSettings: lockForRead, a loop over the
\* list, unlock
readLocked(self) ==
    /\ At(self, "idle")
    /\ \E call \in {"cnt", "save"} :
          thr' = [thr EXCEPT ![self] = [Idle EXCEPT !.pc = call]]
    /\ UNCHANGED <<m_tracks, trackType, m_tracksMutex, trackLock,
                   trackAdded, addCalls, added>>
    /\ LooperUnchanged

readLockedLockForRead(self) ==
    /\ \E call \in {"cnt", "save"} :
          /\ At(self, call)
          /\ Goto(self, call \o "_loop")
    /\ lockForRead(self)
    /\ UNCHANGED <<m_tracks, trackType, trackLock, trackAdded, addCalls, added>>
    /\ LooperUnchanged

\* the loop reads m_tracks.size() and every m_tracks[i]
readLockedLoop(self) ==
    /\ \E call \in {"cnt", "save"} :
          /\ At(self, call \o "_loop")
          /\ Goto(self, call \o "_unlock")
    /\ UNCHANGED <<m_tracks, trackType, m_tracksMutex, trackLock,
                   trackAdded, addCalls, added>>
    /\ LooperUnchanged

readLockedUnlock(self) ==
    /\ At(self, "cnt_unlock") \/ At(self, "save_unlock")
    /\ unlock(self)
    /\ thr' = [thr EXCEPT ![self] = Idle]
    /\ UNCHANGED <<m_tracks, trackType, trackLock, trackAdded, addCalls, added>>
    /\ LooperUnchanged

\* a thread calls isEmpty or automatedValuesAt: a loop over the list that
\* takes no lock
readUnlocked(self) ==
    /\ At(self, "idle")
    /\ \E call \in {"empty_iter", "auto_iter"} :
          thr' = [thr EXCEPT ![self] = [Idle EXCEPT !.pc = call]]
    /\ UNCHANGED <<m_tracks, trackType, m_tracksMutex, trackLock,
                   trackAdded, addCalls, added>>
    /\ LooperUnchanged

\* one turn of the loop: the end of the list is read, then the track at i;
\* isEmpty returns at the first track that has clips
readUnlockedIter(self) ==
    /\ At(self, "empty_iter") \/ At(self, "auto_iter")
    /\ IF thr[self].i >= Len(m_tracks)
       THEN thr' = [thr EXCEPT ![self] = Idle]
       ELSE \/ thr' = [thr EXCEPT ![self].i = @ + 1]
            \/ /\ At(self, "empty_iter")
               /\ thr' = [thr EXCEPT ![self] = Idle]
    /\ UNCHANGED <<m_tracks, trackType, m_tracksMutex, trackLock,
                   trackAdded, addCalls, added>>
    /\ LooperUnchanged

\* a thread calls clearAllTracks
clearAllTracks(self) ==
    /\ At(self, "idle")
    /\ thr' = [thr EXCEPT ![self] = [Idle EXCEPT !.pc = "clear_first"]]
    /\ UNCHANGED <<m_tracks, trackType, m_tracksMutex, trackLock,
                   trackAdded, addCalls, added>>
    /\ LooperUnchanged

\* while( !m_tracks.isEmpty() ) delete m_tracks.first(): the list is read
\* with no lock taken, and the track's destructor calls removeTrack
clearAllTracksFirst(self) ==
    /\ At(self, "clear_first")
    /\ thr' = [thr EXCEPT ![self] =
                  IF m_tracks = <<>>
                  THEN Idle
                  ELSE [Idle EXCEPT !.pc = "rm_lockForWrite",
                                    !.track = Head(m_tracks),
                                    !.ret = "clear_first"]]
    /\ UNCHANGED <<m_tracks, trackType, m_tracksMutex, trackLock,
                   trackAdded, addCalls, added>>
    /\ LooperUnchanged

\* the thread is in addTrack, between its first step and the return
InAddTrack(self) ==
    thr[self].pc \in {"add_lockTrack", "add_lockForWrite", "add_push",
                      "add_unlock", "add_unlockTrack", "add_emit"}

\* The thread's next step is a lock call that does not return in this state:
\* the track's mutex is held; or the write lock is wanted while the lock is
\* held; or the read lock is wanted while the lock is held for writing or
\* (QReadWriteLock prefers writers) a thread is at lockForWrite.
Waits(self) ==
    \/ /\ At(self, "add_lockTrack")
       /\ trackLock[thr[self].track] # 0
    \/ /\ At(self, "add_lockForWrite") \/ At(self, "rm_lockForWrite")
       /\ m_tracksMutex.writer # 0 \/ m_tracksMutex.readers # {}
    \/ /\ At(self, "cnt") \/ At(self, "save")
       /\ \/ m_tracksMutex.writer # 0
          \/ \E other \in Threads \ {self} :
                 At(other, "add_lockForWrite") \/ At(other, "rm_lockForWrite")

\* the thread's next step reads m_tracks
ReadsList(self) ==
    thr[self].pc \in {"rm_remove", "cnt_loop", "save_loop", "empty_iter",
                      "auto_iter", "clear_first"}

\* the thread's next step modifies m_tracks
WritesList(self) ==
    \/ At(self, "add_push")
    \/ At(self, "rm_remove") /\ indexOf(m_tracks, thr[self].track) # -1

(* -------------------- automation value resolution --------------------- *)

\* the AutomatableModel objects that clips automate
Models == {"volume", "panning"}

\* positions on the time line, in ticks: the start of the song and one bar on
Positions == {0, DefaultTicksPerBar}

\* the track types of a list with automation
AutomationTrackTypes ==
    {"AutomationTrack", "HiddenAutomationTrack", "BBTrack", "InstrumentTrack"}

\* A clip: whether it is muted, where it starts, whether (an automation
\* clip) it has automation, and the models it automates: AutomationClip::
\* objects(), or for a BB clip the keys of its pattern's automated values.
\* A clip of the model is in order or has one defect.
ClipConfigs ==
    {c \in [muted : BOOLEAN, startPosition : Positions,
            hasAutomation : BOOLEAN,
            objects : {{"volume"}, {"volume", "panning"}}] :
        Cardinality({d \in {"muted", "late", "empty"} :
                        \/ d = "muted" /\ c.muted
                        \/ d = "late" /\ c.startPosition # 0
                        \/ d = "empty" /\ ~c.hasAutomation}) <= 1}

\* a Clip* is modelled by the track and the index (from 1) of the clip
startPosition(clip) == clips[clip.track][clip.index].startPosition

\* every clip is one bar long
endPosition(clip) == startPosition(clip) + DefaultTicksPerBar

\* the class dynamic_cast finds: the clips of a track are of its type's class
clipClass(clip) ==
    IF trackType[clip.track] \in {"AutomationTrack", "HiddenAutomationTrack"}
    THEN "AutomationClip"
    ELSE IF trackType[clip.track] = "BBTrack" THEN "BBClip" ELSE "MidiClip"

\* Track::getClipsInRange puts a clip before the first clip of the vector
\* that does not start earlier
RECURSIVE insertPosition(_, _, _)
insertPosition(clipV, s, i) ==
    IF i > Len(clipV) THEN i
    ELSE IF startPosition(clipV[i]) >= s THEN i
    ELSE insertPosition(clipV, s, i + 1)

insert(clipV, clip) ==
    LET i == insertPosition(clipV, startPosition(clip), 1)
    IN  SubSeq(clipV, 1, i - 1) \o <<clip>> \o SubSeq(clipV, i, Len(clipV))

\* Track::getClipsInRange(clipV, start, end), from the track's clip j on
RECURSIVE getClipsInRange(_, _, _, _, _)
getClipsInRange(clipV, track, start, end, j) ==
    IF j > Len(clips[track]) THEN clipV
    ELSE LET clip == [track |-> track, index |-> j]
         IN  getClipsInRange(
                 IF startPosition(clip) <= end /\ endPosition(clip) >= start
                 THEN insert(clipV, clip) ELSE clipV,
                 track, start, end, j + 1)

\* mutant: the clips of muted tracks are collected too
RECURSIVE collectClipsOfMutedTracks(_, _, _, _, _)
collectClipsOfMutedTracks(tracks, i, clipV, time, clipNum) ==
    IF i > Len(tracks) THEN clipV
    ELSE LET track == tracks[i]
             collected ==
                 IF trackType[track] \in
                        {"AutomationTrack", "HiddenAutomationTrack", "BBTrack"}
                 THEN IF clipNum < 0
                      THEN getClipsInRange(clipV, track, 0, time, 1)
                      ELSE Append(clipV, [track |-> track, index |-> clipNum + 1])
                 ELSE clipV
         IN  collectClipsOfMutedTracks(tracks, i + 1, collected, time, clipNum)

\* the first loop of automatedValuesFromTracks, from track i of the list on
RECURSIVE collectClips(_, _, _, _, _)
collectClips(tracks, i, clipV, time, clipNum) ==
    IF i > Len(tracks) THEN clipV
    ELSE LET track == tracks[i]
             collected ==
                 IF muted[track] THEN clipV
                 ELSE IF trackType[track] \in
                        {"AutomationTrack", "HiddenAutomationTrack", "BBTrack"}
                 THEN IF clipNum < 0
                      THEN getClipsInRange(clipV, track, 0, time, 1)
                      ELSE Append(clipV, [track |-> track, index |-> clipNum + 1])
                 ELSE clipV
         IN  collectClips(tracks, i + 1, collected, time, clipNum)

\* the models one clip writes into the value map
written(clip, time) ==
    LET data == clips[clip.track][clip.index]
    IN  IF data.muted \/ data.startPosition > time THEN {}
        ELSE IF clipClass(clip) = "AutomationClip"
             THEN IF ~data.hasAutomation THEN {} ELSE data.objects
        ELSE IF clipClass(clip) = "BBClip" THEN data.objects
        ELSE {}

\* the second loop, from clip k of the vector on.  The value of an entry is
\* the track of the clip that wrote it last (the clip's curve is not modelled).
RECURSIVE resolveValues(_, _, _, _)
resolveValues(clipV, k, map, time) ==
    IF k > Len(clipV) THEN map
    ELSE LET models == written(clipV[k], time)
         IN  resolveValues(clipV, k + 1,
                 [m \in DOMAIN map \cup models |->
                     IF m \in models THEN clipV[k].track ELSE map[m]],
                 time)

automatedValuesFromTracks(tracks, time, clipNum) ==
    resolveValues(collectClips(tracks, 1, <<>>, time, clipNum), 1, <<>>, time)

automatedValuesAt(time, clipNum) ==
    automatedValuesFromTracks(m_tracks, time, clipNum)

\* Q_ASSERT(track->numOfClips() > clipNum), for the tracks that are asked
hasClip(tracks, clipNum) ==
    \A i \in 1..Len(tracks) :
        (/\ ~muted[tracks[i]]
         /\ trackType[tracks[i]] \in
                {"AutomationTrack", "HiddenAutomationTrack", "BBTrack"})
        => Len(clips[tracks[i]]) > clipNum

\* the values at a position are asked for: of all clips in range (clipNum
\* -1) or of the clip with a given number
AutomatedValuesAt ==
    \E time \in Positions, clipNum \in -1..0 :
        /\ clipNum >= 0 => hasClip(m_tracks, clipNum)
        /\ valueMap' = automatedValuesAt(time, clipNum)
        /\ query' = [asked |-> TRUE, time |-> time, clipNum |-> clipNum]
        /\ UNCHANGED <<m_tracks, trackType, clips, m_usePerTrackLoopLength,
                       m_tracksLoopLength>>
        /\ UNCHANGED looperVars
        /\ UNCHANGED containerVars

(* ---------------------------- specification ---------------------------- *)

\* the song's list holds tracks 1..n; hidden automation tracks are never in it
SongLists ==
    {[i \in 1..n |-> i] : n \in 0..MaxSong}

\* no clip on any track, no automation value asked for
NoAutomation ==
    /\ clips = [t \in TrackIds |-> <<>>]
    /\ valueMap = <<>>
    /\ query = [asked |-> FALSE, time |-> 0, clipNum |-> -1]

InitLooper ==
    /\ m_enabled = FALSE
    /\ m_pendingAction = NoAction
    /\ m_globalLoopLength = 1
    /\ playing = FALSE
    /\ recording = FALSE
    /\ currentMidiClip = 0
    /\ timeline = [lp0pos |-> 0, lp1pos |-> DefaultTicksPerBar,
                   lpstate |-> "LoopPointsDisabled"]
    /\ trackChanged = <<>>
    /\ m_tracksMutex = [writer |-> 0, readers |-> {}]
    /\ trackLock = [t \in TrackIds |-> 0]
    /\ thr = [self \in Threads |-> Idle]
    /\ trackAdded = [t \in TrackIds |-> 0]
    /\ addCalls = [t \in TrackIds |-> 0]
    /\ added = <<>>
    /\ lastOp = [op |-> "init", key |-> 0, playing |-> FALSE,
                 recording |-> FALSE, pending |-> NoAction, clip |-> 0,
                 requested |-> FALSE]
    /\ recordRequested = FALSE

\* the tracks of the song: instrument and sample tracks in any order
InitSong ==
    /\ m_tracks \in SongLists
    /\ trackType \in [TrackIds -> {"InstrumentTrack", "SampleTrack"}]
    /\ \A t \in TrackIds : t > Len(m_tracks) => trackType[t] = "SampleTrack"
    /\ muted = [t \in TrackIds |-> FALSE]

InstrumentTracks ==
    {t \in TrackIds : t <= Len(m_tracks) /\ trackType[t] = "InstrumentTrack"}

\* every MIDI port knows every port of the client; the looper listens to
\* in1, the tracks to all ports; the global loop length is used
Init ==
    /\ InitSong
    /\ midiPort = [t \in TrackIds |->
                      IF t \in InstrumentTracks
                      THEN [p \in Ports |-> TRUE] ELSE <<>>]
    /\ m_midiPort = [mode |-> "Input",
                     readablePorts |-> [p \in Ports |-> p = "in1"]]
    /\ m_usePerTrackLoopLength = FALSE
    /\ m_tracksLoopLength = <<>>
    /\ InitLooper
    /\ NoAutomation

Next ==
    \/ ProgramChangeEvent
    \/ ControlChangeEvent
    \/ OnLoopRestart
    \/ OnTrackChanged
    \/ OnEnableChanged
    \/ OnLoopLengthChanged
    \/ OnProjectLoad

Spec == Init /\ [][Next]_vars

\* any subscription of any known ports, on the tracks and on the looper; the
\* per-track loop lengths may be in use
InitPorts ==
    /\ InitSong
    /\ midiPort \in [TrackIds -> PortMaps]
    /\ \A t \in TrackIds : t \notin InstrumentTracks => midiPort[t] = <<>>
    /\ m_midiPort \in [mode : {"Input"}, readablePorts : PortMaps]
    /\ m_usePerTrackLoopLength \in BOOLEAN
    /\ m_tracksLoopLength =
          IF m_usePerTrackLoopLength
          THEN [t \in InstrumentTracks |-> 2]
          ELSE <<>>
    /\ InitLooper
    /\ NoAutomation

\* track selection only: program changes, their queued signals, and the
\* handlers that select the first track
NextPorts ==
    \/ ProgramChangeEvent
    \/ OnTrackChanged
    \/ OnEnableChanged
    \/ OnProjectLoad

SpecPorts == InitPorts /\ [][NextPorts]_vars

\* a song some of whose tracks are muted (as loaded from a project, or muted
\* in the song editor), with the looper listening on in1
InitMute ==
    /\ m_tracks \in SongLists
    /\ trackType \in [TrackIds -> {"InstrumentTrack", "SampleTrack"}]
    /\ \A t \in TrackIds : t > Len(m_tracks) => trackType[t] = "SampleTrack"
    /\ muted \in [TrackIds -> BOOLEAN]
    /\ \A t \in TrackIds : t > Len(m_tracks) => ~muted[t]
    /\ midiPort = [t \in TrackIds |->
                      IF t \in InstrumentTracks
                      THEN [p \in Ports |-> TRUE] ELSE <<>>]
    /\ m_midiPort = [mode |-> "Input",
                     readablePorts |-> [p \in Ports |-> p = "in1"]]
    /\ m_usePerTrackLoopLength = FALSE
    /\ m_tracksLoopLength = <<>>
    /\ InitLooper
    /\ NoAutomation

\* the pads, the loop restart that carries out a queued mute, and the
\* selection of tracks
NextMute ==
    \/ ProgramChangeEvent
    \/ ControlChangeEvent
    \/ OnLoopRestart
    \/ OnTrackChanged

SpecMute == InitMute /\ [][NextMute]_vars

\* an empty container, track objects of any type, no looper activity
InitContainer ==
    /\ m_tracks = <<>>
    /\ trackType \in [TrackIds -> TrackTypes]
    /\ muted = [t \in TrackIds |-> FALSE]
    /\ midiPort = [t \in TrackIds |-> <<>>]
    /\ m_midiPort = [mode |-> "Input", readablePorts |-> [p \in Ports |-> FALSE]]
    /\ m_usePerTrackLoopLength = FALSE
    /\ m_tracksLoopLength = <<>>
    /\ InitLooper
    /\ NoAutomation

NextContainer ==
    \E self \in Threads :
        \/ addTrack(self)
        \/ addTrackLockTrack(self)
        \/ addTrackLockForWrite(self)
        \/ addTrackPush(self)
        \/ addTrackUnlock(self)
        \/ addTrackUnlockTrack(self)
        \/ addTrackEmit(self)
        \/ removeTrack(self)
        \/ removeTrackLockForWrite(self)
        \/ removeTrackRemove(self)
        \/ removeTrackUnlock(self)
        \/ readLocked(self)
        \/ readLockedLockForRead(self)
        \/ readLockedLoop(self)
        \/ readLockedUnlock(self)
        \/ readUnlocked(self)
        \/ readUnlockedIter(self)
        \/ clearAllTracks(self)
        \/ clearAllTracksFirst(self)

SpecContainer == InitContainer /\ [][NextContainer]_vars

\* a list of up to MaxSong tracks of any type, muted or not, each with one clip
InitAutomation ==
    /\ \E n \in 0..MaxSong :
         \E types \in [1..n -> AutomationTrackTypes],
            mutes \in [1..n -> BOOLEAN],
            configs \in [1..n -> ClipConfigs] :
            /\ m_tracks = [i \in 1..n |-> i]
            /\ trackType = [t \in TrackIds |->
                               IF t <= n THEN types[t] ELSE "InstrumentTrack"]
            /\ muted = [t \in TrackIds |-> IF t <= n THEN mutes[t] ELSE FALSE]
            /\ clips = [t \in TrackIds |->
                           IF t <= n THEN <<configs[t]>> ELSE <<>>]
    /\ valueMap = <<>>
    /\ query = [asked |-> FALSE, time |-> 0, clipNum |-> -1]
    /\ midiPort = [t \in TrackIds |-> <<>>]
    /\ m_midiPort = [mode |-> "Input", readablePorts |-> [p \in Ports |-> FALSE]]
    /\ m_usePerTrackLoopLength = FALSE
    /\ m_tracksLoopLength = <<>>
    /\ InitLooper

NextAutomation == AutomatedValuesAt

SpecAutomation == InitAutomation /\ [][NextAutomation]_vars

\* an empty container; the track objects are instrument tracks or hidden
\* automation tracks
InitLocked ==
    /\ m_tracks = <<>>
    /\ trackType \in [TrackIds -> {"InstrumentTrack", "HiddenAutomationTrack"}]
    /\ muted = [t \in TrackIds |-> FALSE]
    /\ midiPort = [t \in TrackIds |-> <<>>]
    /\ m_midiPort = [mode |-> "Input", readablePorts |-> [p \in Ports |-> FALSE]]
    /\ m_usePerTrackLoopLength = FALSE
    /\ m_tracksLoopLength = <<>>
    /\ InitLooper
    /\ NoAutomation

\* the operations that take the container's lock: addTrack, removeTrack,
\* countTracks and saveSettings
NextLocked ==
    \E self \in Threads :
        \/ addTrack(self)
        \/ addTrackLockTrack(self)
        \/ addTrackLockForWrite(self)
        \/ addTrackPush(self)
        \/ addTrackUnlock(self)
        \/ addTrackUnlockTrack(self)
        \/ addTrackEmit(self)
        \/ removeTrack(self)
        \/ removeTrackLockForWrite(self)
        \/ removeTrackRemove(self)
        \/ removeTrackUnlock(self)
        \/ readLocked(self)
        \/ readLockedLockForRead(self)
        \/ readLockedLoop(self)
        \/ readLockedUnlock(self)

SpecLocked == InitLocked /\ [][NextLocked]_vars

(* ------------------------------- claims -------------------------------- *)

\* the indices (from 0) of the instrument tracks in the song's list
InstrumentIndices ==
    {i \in 0..(Len(m_tracks) - 1) : trackType[m_tracks[i + 1]] = "InstrumentTrack"}

\* C1: the operations on the track list take the read/write lock, so that
\* under any interleaving no thread is about to modify the list while
\* another thread is about to read or modify it.
C1_NoOverlappingAccess ==
    \A a, b \in Threads :
        (a # b /\ WritesList(a)) => ~(ReadsList(b) \/ WritesList(b))

\* C2: a play event stops the recording when the piano roll records, else
\* stops the song when it plays, else starts the song; it never starts a
\* recording.
C2_PlayByState ==
    lastOp.op = "play" =>
        /\ lastOp.recording => ~recording
        /\ (~lastOp.recording /\ lastOp.playing) => (~playing /\ ~recording)
        /\ (~lastOp.recording /\ ~lastOp.playing) => (playing /\ ~recording)

\* C2 witness: a play event found the song playing, not recording, and
\* stopped it
C2_Witness ==
    /\ lastOp.op = "play"
    /\ lastOp.playing /\ ~lastOp.recording
    /\ ~playing

\* C3: a record event stops the recording when the piano roll records;
\* requests StartRecord when the song plays, nothing records and a clip is
\* open; starts playback and recording together when idle.
C3_RecordByState ==
    lastOp.op = "record" =>
        /\ lastOp.recording => ~recording
        /\ (~lastOp.recording /\ lastOp.playing /\ lastOp.clip # 0)
               => m_pendingAction = StartRecord
        /\ (~lastOp.recording /\ ~lastOp.playing) => (playing /\ recording)

\* C4: while the piano roll records the pending action is StopRecord; it
\* stays StopRecord until a loop restart; and the loop restart that finds it
\* ends the recording, sets NoAction and leaves playback as it was.
C4_RecordOneIteration ==
    /\ recording => m_pendingAction = StopRecord
    /\ (lastOp.pending = StopRecord /\ lastOp.op # "loopRestart")
           => m_pendingAction = StopRecord
    /\ (lastOp.op = "loopRestart" /\ lastOp.pending = StopRecord)
           => /\ ~recording
              /\ m_pendingAction = NoAction
              /\ playing = lastOp.playing

\* C4 witness: a loop restart ended a recording and the song plays on
C4_Witness ==
    /\ lastOp.op = "loopRestart"
    /\ lastOp.pending = StopRecord /\ lastOp.recording
    /\ ~recording /\ playing /\ m_pendingAction = NoAction

\* C5: a record event that comes while the song plays and nothing records
\* (a clip being open) does not start the recording; the next loop restart
\* starts it; and while the song plays a recording starts at a loop restart
\* only.
C5_StartQuantized ==
    /\ (lastOp.op = "record" /\ lastOp.playing /\ ~lastOp.recording)
           => ~recording
    /\ (lastOp.op = "loopRestart" /\ lastOp.requested) => recording
    /\ (recording /\ ~lastOp.recording /\ lastOp.playing)
           => lastOp.op = "loopRestart"

\* C6: a record or play event that comes while the piano roll records does
\* not stop the recording at that moment.
C6_StopQuantized ==
    (lastOp.op \in {"record", "play"} /\ lastOp.recording) => recording

\* C7: a record event and a loop restart leave a playing song playing, and a
\* play event that comes while the piano roll records stops the recording and
\* leaves the song playing.
C7_Seamless ==
    /\ (lastOp.op \in {"record", "loopRestart"} /\ lastOp.playing) => playing
    /\ (lastOp.op = "play" /\ lastOp.recording)
           => (playing = lastOp.playing /\ ~recording)

\* C7 witness: a play event came while recording; recording ended, the song
\* plays
C7_Witness ==
    /\ lastOp.op = "play"
    /\ lastOp.recording /\ lastOp.playing
    /\ playing /\ ~recording

\* the index of the track a handler has just selected with setupTrack, or -1
SelectedBy(op, enabled) ==
    CASE op.op = "programChange" -> getInstrumentTrackAt(op.key)
      [] op.op = "projectLoad"   -> getInstrumentTrackAt(0)
      [] op.op = "enableChanged" -> IF enabled THEN getInstrumentTrackAt(0) ELSE -1
      [] OTHER                   -> -1

\* C8: right after setupTrack selected an instrument track, every other
\* instrument track has all its ports unsubscribed, the selected track has,
\* for every port of the looper it knows, the looper's subscription, and
\* the tracks that are no instrument tracks are as before.
C8_InputOnlyCurrentTrack ==
    [][LET sel == SelectedBy(lastOp', m_enabled')
       IN  sel # -1 =>
             LET t == m_tracks[sel + 1]
             IN  /\ \A u \in InstrumentTracks \ {t} :
                       \A p \in DOMAIN midiPort'[u] : ~midiPort'[u][p]
                 /\ DOMAIN midiPort'[t] = DOMAIN midiPort[t]
                 /\ \A p \in (DOMAIN midiPort'[t])
                               \cap (DOMAIN m_midiPort'.readablePorts) :
                       midiPort'[t][p] = m_midiPort'.readablePorts[p]
                 /\ \A u \in TrackIds \ InstrumentTracks :
                       /\ midiPort'[u] = midiPort[u]
                       /\ muted'[u] = muted[u]
      ]_vars

\* C8 witness: a program change selected the second of two instrument
\* tracks; the first one, subscribed before, is unsubscribed, the selected
\* one is subscribed to a port
C8_Witness ==
    /\ lastOp.op = "programChange" /\ lastOp.key = 1
    /\ getInstrumentTrackAt(1) = 1
    /\ \A p \in DOMAIN midiPort[m_tracks[1]] : ~midiPort[m_tracks[1]][p]
    /\ \E p \in DOMAIN midiPort[m_tracks[2]] : midiPort[m_tracks[2]][p]
    /\ \E p \in DOMAIN midiPort[m_tracks[2]] : ~midiPort[m_tracks[2]][p]

\* C9: getInstrumentTrackAt(n) is -1 exactly when the song has fewer than
\* n+1 instrument tracks, and else the index of the instrument track that has
\* exactly n instrument tracks before it.
C9_NthInstrumentTrack ==
    \A n \in 0..MaxPC :
        LET r == getInstrumentTrackAt(n)
        IN  /\ (r = -1) <=> (Cardinality(InstrumentIndices) < n + 1)
            /\ r # -1 =>
                  /\ r \in InstrumentIndices
                  /\ Cardinality({i \in InstrumentIndices : i < r}) = n

\* C9 witness: a program change 0 selected the track at index 1, the track
\* at index 0 being no instrument track
C9_Witness ==
    /\ lastOp.op = "programChange" /\ lastOp.key = 0
    /\ getInstrumentTrackAt(0) = 1
    /\ trackChanged # <<>> /\ trackChanged[Len(trackChanged)] = 1

\* C10: a program change that names no instrument track changes neither the
\* subscriptions, nor the loop points, nor the piano roll's clip, nor the
\* pending action, and emits no trackChanged signal.
C10_UnknownTrackIgnored ==
    [][(lastOp'.op = "programChange" /\ getInstrumentTrackAt(lastOp'.key) = -1)
          => UNCHANGED <<midiPort, timeline, currentMidiClip, m_pendingAction,
                         trackChanged>>
      ]_vars

\* C10 witness: such a program change came while a track was selected, a
\* clip open and a recording requested
C10_Witness ==
    /\ lastOp.op = "programChange"
    /\ getInstrumentTrackAt(lastOp.key) = -1
    /\ getInstrumentTrackAt(0) # -1
    /\ currentMidiClip # 0
    /\ m_pendingAction = StartRecord
    /\ timeline.lpstate = "LoopPointsEnabled"

\* C11: after an unmute-all control event (a control change bound to
\* unmuteAll, with a non-zero velocity) every track of the song is unmuted.
C11_AllTracksUnmuted ==
    lastOp.op = "unmuteAll" =>
        \A i \in 1..Len(m_tracks) : ~muted[m_tracks[i]]

\* a live source of a model at the time asked for: an unmuted track of type
\* AutomationTrack, HiddenAutomationTrack or BBTrack with an unmuted clip
\* that starts no later and automates the model
LiveSource(m) ==
    \E i \in 1..Len(m_tracks) :
        LET t == m_tracks[i]
        IN  /\ ~muted[t]
            /\ trackType[t] \in {"AutomationTrack", "HiddenAutomationTrack", "BBTrack"}
            /\ \E j \in 1..Len(clips[t]) :
                  /\ ~clips[t][j].muted
                  /\ clips[t][j].startPosition <= query.time
                  /\ m \in clips[t][j].objects
                  /\ trackType[t] # "BBTrack" => clips[t][j].hasAutomation

\* C12: the map automatedValuesFromTracks returns for a time t has an entry
\* for a model only if the model has a live source at t; muted tracks, muted
\* clips, clips starting after t and tracks of other types contribute nothing.
C12_OnlyLiveSources ==
    query.asked => \A m \in DOMAIN valueMap : LiveSource(m)

\* values were asked for, one model got an entry, and another model that a
\* clip of the list automates got none
C12_Witness ==
    /\ query.asked
    /\ DOMAIN valueMap # {}
    /\ \E m \in Models \ DOMAIN valueMap :
          \E i \in 1..Len(m_tracks) :
              \E j \in 1..Len(clips[m_tracks[i]]) :
                  m \in clips[m_tracks[i]][j].objects

\* C13, as stated: addTrack appends the track at the end of the list,
\* removeTrack removes exactly the given track, the other tracks keep their
\* relative order; the list is the sequence of the added and not removed
\* tracks in order of addition.
C13_OrderedCollection == m_tracks = added

\* C13, amended: the same of the tracks that are no HiddenAutomationTrack; a
\* HiddenAutomationTrack is not added to the list.
C13_OrderedCollectionOfShown ==
    m_tracks = SelectSeq(added, LAMBDA t : trackType[t] # "HiddenAutomationTrack")

\* three tracks were added, one of them was removed again, no call runs
C13_Witness ==
    /\ \A self \in Threads : thr[self].pc = "idle"
    /\ \A t \in TrackIds :
          trackType[t] # "HiddenAutomationTrack" /\ addCalls[t] > 0
    /\ Len(m_tracks) = MaxTracks - 1
    /\ \E i \in 1..Len(m_tracks) : m_tracks[i] > i

\* addTrack holds the track's lock from _track->lock() to _track->unlock()
\* and the write lock, inside that, from lockForWrite() to unlock(); it holds
\* neither when it emits trackAdded
AddTrackLockOrder ==
    \A self \in Threads :
        InAddTrack(self) =>
            /\ trackLock[thr[self].track] = self
                   <=> thr[self].pc \in {"add_lockForWrite", "add_push",
                                         "add_unlock", "add_unlockTrack"}
            /\ m_tracksMutex.writer = self
                   <=> thr[self].pc \in {"add_push", "add_unlock"}

\* some thread is in a call, and every thread that is in a call waits
Deadlock ==
    /\ \E self \in Threads : thr[self].pc # "idle"
    /\ \A self \in Threads : thr[self].pc # "idle" => Waits(self)

\* trackAdded was emitted once for every addTrack call that has returned,
\* and never for a HiddenAutomationTrack
TrackAddedOnce ==
    \A t \in TrackIds :
        trackAdded[t] =
            IF trackType[t] = "HiddenAutomationTrack" THEN 0
            ELSE IF \E self \in Threads : InAddTrack(self) /\ thr[self].track = t
                 THEN addCalls[t] - 1
                 ELSE addCalls[t]

\* C14: addTrack takes the track's lock before the container's write lock,
\* releases them in reverse order and emits trackAdded after both are
\* released; concurrent calls reach no deadlock; trackAdded is emitted once
\* per added track and never for a HiddenAutomationTrack.
C14_AddTrackLocking ==
    /\ AddTrackLockOrder
    /\ ~Deadlock
    /\ TrackAddedOnce

\* a thread in addTrack holds both locks while another thread waits for the
\* container's lock; one track was added before (trackAdded emitted), and
\* addTrack was called with a HiddenAutomationTrack (nothing emitted)
C14_Witness ==
    /\ \E self \in Threads :
          /\ At(self, "add_unlock")
          /\ trackLock[thr[self].track] = self
          /\ m_tracksMutex.writer = self
          /\ \E other \in Threads \ {self} : Waits(other)
    /\ \E t \in TrackIds : trackAdded[t] = 1
    /\ \E t \in TrackIds :
          /\ trackType[t] = "HiddenAutomationTrack"
          /\ addCalls[t] = 1
          /\ trackAdded[t] = 0

====
